---- MODULE Spec2Model ----
(***************************************************************************)
(* A model of marker's OllamaService.__call__ (src/marker/services/        *)
(* ollama.py): the small-image guard, the schema preparation, the retry    *)
(* loop with its four except clauses, the backoff sleeps and the token     *)
(* accounting on the target block.                                         *)
(*                                                                         *)
(* One behaviour is one invocation of the service.  Init fixes the         *)
(* service's configuration and the state of the target block before the    *)
(* call; Call is lines 55-113 (parameter defaults, image guard, schema,    *)
(* payload); every other action is one iteration of the loop of line 115,  *)
(* split by the except clause (or the return) that ends the iteration.     *)
(* The backend's reply to each POST is the environment's choice.           *)
(*                                                                         *)
(* Further down, marker's PdfConverter (src/marker/converters/pdf.py):     *)
(* PdfConfigSpec is its construction over every configuration, PdfSpec is  *)
(* one conversion by a constructed converter, step by step, and SharedSpec *)
(* is two converters built over one artifact_dict, as the server           *)
(* (src/marker/scripts/server.py) builds them.                             *)
(* PageCountSpec is a converter from construction through repeated calls,  *)
(* CallsSpec is a sequence of service calls against one block, and         *)
(* ServerSpec is the upload handler of the server under requests that      *)
(* carry the same filename.                                                *)
(***************************************************************************)
EXTENDS Integers, Sequences, FiniteSets, TLC

\* ------------------------------------------------------------------ bounds
MaxRetries == 2        \* the per-call max_retries override ranges over 0..MaxRetries
DefaultRetries == 1    \* the service's configured self.max_retries
RetryWait == 2         \* the service's configured self.retry_wait_time
MaxTok == 1            \* prompt_eval_count and eval_count range over 0..MaxTok
MaxImages == 2         \* a list of images has 1..MaxImages elements
PriorCount == 2        \* llm_request_count of a block that was used before
PriorTokens == 100     \* llm_tokens_used of a block that was used before

\* ------------------------------------------------------- program constants
MinImageDim == 28      \* ollama.py:69

VARIABLES
    self_max_retries,      \* self.max_retries
    self_retry_wait_time,  \* self.retry_wait_time
    image,                 \* the image argument
    block_arg,             \* whether the block argument is a Block (not None)
    block,                 \* the target block's metadata counters
    response_schema,       \* response_schema.model_json_schema()
    override,              \* the max_retries argument: <<>> is None, <<n>> is n
    max_retries,           \* the local max_retries after line 58
    total_tries,           \* line 112
    attempt,               \* the loop variable of line 115
    payload,               \* the request payload of lines 98-107
    posts,                 \* number of requests.post calls made by this call
    sleeps,                \* the arguments of the time.sleep calls, in order
    trace,                 \* per finished attempt: what ended it
    pc,                    \* "idle", "loop", "returned" or "raised"
    result,                \* "none", "empty" ({}) or "parsed" (json.loads value)
    served,                \* the backend reply that produced a parsed result
    pre_block              \* the block's counters when the call started

vars == <<self_max_retries, self_retry_wait_time, image, block_arg, block,
          response_schema, override, max_retries, total_tries, attempt,
          payload, posts, sleeps, trace, pc, result, served, pre_block>>

\* ------------------------------------------------- the converter's state
\* The state of PdfConverter (src/marker/converters/pdf.py), modelled further
\* down.  A service call does not touch it, and a conversion is modelled
\* without the service calls its processors make.
VARIABLES
    use_llm,             \* config.get("use_llm", False)
    toggles,             \* the converter's enable_llm_* attributes
    processor_list_arg,  \* the processor_list argument: <<>> is None, <<l>> is the list l
    llm_service_arg,     \* the llm_service argument: "" is None
    artifact_dict,       \* artifact_dict's "llm_service" entry: <<>> when the key is absent
    services_built,      \* number of LLM service instances the converters built
    self_llm_service,    \* self.llm_service, a service instance (NoService is None)
    processor_list,      \* self.processor_list: the initialized processors
    page_count,          \* self.page_count: <<>> is None
    pre_page_count,      \* self.page_count when __call__ was entered
    conv_pc,             \* where the converter is
    file_input,          \* what __call__ was given: "str", "BytesIO" or "other"
    temp_file,           \* the temporary file: "none", "exists" or "removed"
    input_file,          \* the file at the caller's path: "exists" or "removed"
    temp_path,           \* what filepath_to_str yielded: "", "input" or "temp"
    document,            \* the Document being converted
    proc_index,          \* position of the processor loop of line 264
    events,              \* the collaborators run by this conversion, in order
    merge_saw,           \* the region's type when the table-merge processor started
    error,               \* the exception __call__ raised to its caller ("" for none)
    rendered,            \* what __call__ returned ("" for nothing)
    convs                \* two converters over one artifact_dict

pdf_vars == <<use_llm, toggles, processor_list_arg, llm_service_arg,
              artifact_dict, services_built, self_llm_service, processor_list,
              page_count, pre_page_count, conv_pc, file_input, temp_file,
              input_file,
              temp_path, document, proc_index, events, merge_saw, error,
              rendered, convs>>

\* convert_pdf_upload (src/marker/scripts/server.py): the requests in flight
\* and the files they share.
VARIABLES
    handler,             \* each request's handler: where it is and what it holds
    upload_dir,          \* the entry of UPLOAD_DIRECTORY at upload_path: 0 for none, else a file
    inodes               \* the content of every file created, by file

srv_vars == <<handler, upload_dir, inodes>>

all_vars == <<vars, pdf_vars, srv_vars>>

\* No request has been made.
ServerIdle ==
    /\ handler = <<>>
    /\ upload_dir = 0
    /\ inodes = <<>>

\* No document, no service (None).
NoDocument == [id |-> 0, pages |-> 0, region |-> "none"]
NoService == [id |-> 0, cls |-> ""]

\* No converter exists.
PdfIdle ==
    /\ use_llm = FALSE
    /\ toggles = <<>>
    /\ processor_list_arg = <<>>
    /\ llm_service_arg = ""
    /\ artifact_dict = <<>>
    /\ services_built = 0
    /\ self_llm_service = NoService
    /\ processor_list = <<>>
    /\ page_count = <<>>
    /\ pre_page_count = <<>>
    /\ conv_pc = "none"
    /\ file_input = "none"
    /\ temp_file = "none"
    /\ input_file = "exists"
    /\ temp_path = ""
    /\ document = NoDocument
    /\ proc_index = 0
    /\ events = <<>>
    /\ merge_saw = "none"
    /\ error = ""
    /\ rendered = ""
    /\ convs = <<>>

\* ------------------------------------------------------------ input domains
NoExc == "none"
NoField == "<absent>"

\* An image is its size; the image argument is None, one image or a list.
ImageDims == {MinImageDim - 1, MinImageDim}
Images == [width : ImageDims, height : ImageDims]
ImageArgs ==
    {[kind |-> "none", imgs |-> <<>>]}
    \cup {[kind |-> "single", imgs |-> <<i>>] : i \in Images}
    \cup {[kind |-> "list", imgs |-> l] :
            l \in UNION {[1..n -> Images] : n \in 1..MaxImages}}

\* response_schema.model_json_schema(): pydantic always emits "properties"
\* here, emits "required" only when some field is required and "$defs" only
\* when the model has nested models.
SchemaPart(k) ==
    CASE k = "properties" -> "P" [] k = "required" -> "R" [] OTHER -> "D"
Schemas ==
    {[k \in {"properties"} \cup K |-> SchemaPart(k)] :
        K \in SUBSET {"required", "$defs"}}

\* The usage counters of a JSON reply: each may be missing.
UsageDicts ==
    UNION {[K -> 0..MaxTok] : K \in SUBSET {"prompt_eval_count", "eval_count"}}

\* What the backend does with one POST.  exc: the exception requests.post
\* itself raises (NoExc: it returns a response); status: the response's HTTP
\* status; body_json: whether the body is JSON; usage, response: the members
\* of the JSON object ("response" is NoField when missing, else a string that
\* is or is not JSON).
NoUsage == [k \in {} |-> 0]
Reply(e, s, j, u, r) ==
    [exc |-> e, status |-> s, body_json |-> j, usage |-> u, response |-> r]
StatusCodes == {200, 400, 404, 429, 500, 503}
BackendReplies ==
    {Reply(e, 0, FALSE, NoUsage, NoField) :
        e \in {"ConnectionError", "Timeout", "RuntimeError"}}
    \cup {Reply(NoExc, s, FALSE, NoUsage, NoField) : s \in StatusCodes}
    \cup {Reply(NoExc, 200, TRUE, u, r) :
            u \in UsageDicts, r \in {NoField, "not json", "json"}}
NoReply == Reply(NoExc, 0, FALSE, NoUsage, NoField)

\* ------------------------------------------------------------- the prelude
\* Mutant: `if not max_retries` in place of `if max_retries is None`.
EffectiveMaxRetriesFalsy(ovr) ==
    IF ovr = <<>> \/ ovr = <<0>> THEN self_max_retries ELSE ovr[1]

\* Lines 57-58.
EffectiveMaxRetries(ovr) ==
    IF ovr = <<>> THEN self_max_retries ELSE ovr[1]

\* Mutant: `and` in place of `or`.
TooSmallBoth(img) == img.width < MinImageDim /\ img.height < MinImageDim

\* Line 69.
TooSmall(img) == img.width < MinImageDim \/ img.height < MinImageDim

\* Lines 66-71: the first too-small image of the argument skips the call.
SkipsCall(im) ==
    im.kind # "none" /\ \E k \in 1..Len(im.imgs) : TooSmall(im.imgs[k])

\* Mutant: lines 90-91 left out.
FormatSchemaNoDefs(schema) ==
    [k \in {"type", "properties", "required"} |->
        IF k = "type" THEN "object" ELSE schema[k]]

\* Lines 82-91; a schema without "required" raises KeyError at line 85.
SchemaRaises(schema) == "required" \notin DOMAIN schema
FormatSchema(schema) ==
    [k \in {"type", "properties", "required"}
            \cup (IF "$defs" \in DOMAIN schema THEN {"$defs"} ELSE {}) |->
        IF k = "type" THEN "object" ELSE schema[k]]

\* Lines 75, 98-107: "images" is in the payload when there are image bytes.
Payload(schema, im) ==
    [format |-> FormatSchema(schema), has_images |-> Len(im.imgs) > 0]
NoPayload == [format |-> [k \in {"type"} |-> "unset"], has_images |-> FALSE]

\* Line 112.
TotalTries(mr) == mr + 1

\* ---------------------------------------------------------- one iteration
\* dict.get(key, default), lines 125-126.
Get(d, key, default) == IF key \in DOMAIN d THEN d[key] ELSE default

\* Lines 124-127.
TotalTokens(reply) ==
    Get(reply.usage, "prompt_eval_count", 0) + Get(reply.usage, "eval_count", 0)

\* Block.update_metadata adds the given amounts to the block's counters.
update_metadata(b, count, tokens) ==
    [llm_request_count |-> b.llm_request_count + count,
     llm_tokens_used |-> b.llm_tokens_used + tokens]

\* Lines 118-138, the try body: the exception it raises (NoExc: it returns
\* at line 138) and whether line 130 was reached before that.
TryBody(reply) ==
    IF reply.exc # NoExc
        THEN [exc |-> reply.exc, accounted |-> FALSE]                \* 118
    ELSE IF reply.status >= 400
        THEN [exc |-> "HTTPError", accounted |-> FALSE]              \* 119
    ELSE IF ~reply.body_json
        THEN [exc |-> "RequestsJSONDecodeError", accounted |-> FALSE] \* 120
    ELSE IF reply.response = NoField
        THEN [exc |-> "KeyError", accounted |-> TRUE]                \* 137
    ELSE IF reply.response # "json"
        THEN [exc |-> "JSONDecodeError", accounted |-> TRUE]         \* 138
    ELSE [exc |-> NoExc, accounted |-> TRUE]

\* Mutant: the counters are assigned, not added to.
BlockAfterAssigned(reply) ==
    IF TryBody(reply).accounted /\ block_arg
        THEN update_metadata([llm_request_count |-> 0, llm_tokens_used |-> 0],
                             1, TotalTokens(reply))
        ELSE block

\* Lines 129-133.
BlockAfter(reply) ==
    IF TryBody(reply).accounted /\ block_arg
        THEN update_metadata(block, 1, TotalTokens(reply))
        ELSE block

\* The classes an exception is an instance of.  requests' JSONDecodeError
\* derives from both json.JSONDecodeError and RequestException.
Bases(exc) ==
    {exc, "Exception"} \cup
    CASE exc \in {"HTTPError", "ConnectionError", "Timeout"} -> {"RequestException"}
      [] exc = "RequestsJSONDecodeError" -> {"JSONDecodeError", "RequestException"}
      [] OTHER -> {}

\* Mutant: the RequestException clause placed before the JSONDecodeError one.
ExceptClausesReordered ==
    <<"HTTPError", "RequestException", "JSONDecodeError", "Exception">>

\* The except clauses in source order (lines 144, 166, 180, 194); the first
\* one the exception is an instance of handles it.
ExceptClauses == <<"HTTPError", "JSONDecodeError", "RequestException", "Exception">>
Handler(exc) ==
    LET hits == {k \in 1..Len(ExceptClauses) : ExceptClauses[k] \in Bases(exc)}
    IN  ExceptClauses[CHOOSE k \in hits : \A j \in hits : k <= j]

\* Line 145: `e.response.status_code if e.response else None`.  The truth
\* value of a requests.Response is its .ok, which is False for every status
\* raise_for_status raises on; None is modelled as 0.
ResponseTruthy(status) == status < 400
StatusCode(reply) == IF ResponseTruthy(reply.status) THEN reply.status ELSE 0

\* Mutant: `not in` in place of `in`.
IsTransientInverted(status_code) == status_code \notin {429, 500, 503}

\* Line 148.
IsTransient(status_code) == status_code \in {429, 500, 503}

\* Mutant: a constant wait in place of the linear one.
WaitTimeConstant(k) == self_retry_wait_time

\* Mutant: the wait grows with the number of sleeps taken so far.
WaitTimeByBackoffs(k) == (Len(sleeps) + 1) * self_retry_wait_time

\* Lines 150 and 182.
WaitTime(k) == k * self_retry_wait_time

\* Line 115: the loop goes on to the next attempt, or is exhausted.
Continue ==
    /\ attempt' = attempt + 1
    /\ pc' = IF attempt < total_tries THEN "loop" ELSE "returned"
    /\ result' = IF attempt < total_tries THEN "none" ELSE "empty"

\* Mutant: the handler re-raises in place of `break`.
BreakReraises ==
    /\ attempt' = attempt
    /\ pc' = "raised"
    /\ result' = "none"

\* break, then line 200.
Break ==
    /\ attempt' = attempt
    /\ pc' = "returned"
    /\ result' = "empty"

Posted(reply) ==
    /\ posts' = posts + 1
    /\ block' = BlockAfter(reply)
    /\ trace' = Append(trace, [exc |-> TryBody(reply).exc, status |-> reply.status])
    /\ UNCHANGED <<self_max_retries, self_retry_wait_time, image, block_arg,
                   response_schema, override, max_retries, total_tries,
                   payload, pre_block>>
    /\ UNCHANGED <<pdf_vars, srv_vars>>

\* ------------------------------------------------------------------ actions
Init ==
    /\ self_max_retries = DefaultRetries
    /\ self_retry_wait_time = RetryWait
    /\ block \in {[llm_request_count |-> 0, llm_tokens_used |-> 0],
                  [llm_request_count |-> PriorCount, llm_tokens_used |-> PriorTokens]}
    /\ pre_block = block
    /\ image = [kind |-> "none", imgs |-> <<>>]
    /\ block_arg = FALSE
    /\ response_schema = [k \in {"properties"} |-> SchemaPart(k)]
    /\ override = <<>>
    /\ max_retries = 0
    /\ total_tries = 0
    /\ attempt = 0
    /\ payload = NoPayload
    /\ posts = 0
    /\ sleeps = <<>>
    /\ trace = <<>>
    /\ pc = "idle"
    /\ result = "none"
    /\ served = NoReply
    /\ PdfIdle
    /\ ServerIdle

\* Lines 55-113: the call up to the loop.
Call ==
    /\ pc = "idle"
    /\ \E im \in ImageArgs, b \in BOOLEAN, schema \in Schemas,
          ovr \in {<<>>} \cup {<<n>> : n \in 0..MaxRetries} :
        /\ image' = im
        /\ block_arg' = b
        /\ response_schema' = schema
        /\ override' = ovr
        /\ max_retries' = EffectiveMaxRetries(ovr)
        /\ IF SkipsCall(im)
             THEN /\ pc' = "returned"
                  /\ result' = "empty"
                  /\ UNCHANGED <<payload, total_tries, attempt>>
           ELSE IF SchemaRaises(schema)
             THEN /\ pc' = "raised"
                  /\ UNCHANGED <<result, payload, total_tries, attempt>>
           ELSE /\ payload' = Payload(schema, im)
                /\ total_tries' = TotalTries(EffectiveMaxRetries(ovr))
                /\ attempt' = 1
                /\ pc' = IF TotalTries(EffectiveMaxRetries(ovr)) >= 1
                           THEN "loop" ELSE "returned"
                /\ result' = IF TotalTries(EffectiveMaxRetries(ovr)) >= 1
                               THEN "none" ELSE "empty"
    /\ UNCHANGED <<self_max_retries, self_retry_wait_time, block, pre_block,
                   posts, sleeps, trace, served>>
    /\ UNCHANGED <<pdf_vars, srv_vars>>

\* Lines 118-138 with no exception: the parsed reply is returned.
AttemptReturns ==
    /\ pc = "loop"
    /\ \E reply \in BackendReplies :
        /\ TryBody(reply).exc = NoExc
        /\ Posted(reply)
        /\ served' = reply
        /\ pc' = "returned"
        /\ result' = "parsed"
        /\ UNCHANGED <<attempt, sleeps>>

\* Lines 144-163.
HandleHTTPError ==
    /\ pc = "loop"
    /\ \E reply \in BackendReplies :
        /\ TryBody(reply).exc # NoExc
        /\ Handler(TryBody(reply).exc) = "HTTPError"
        /\ Posted(reply)
        /\ UNCHANGED served
        /\ IF IsTransient(StatusCode(reply))
             THEN IF attempt < total_tries
                    THEN /\ sleeps' = Append(sleeps, WaitTime(attempt))
                         /\ Continue
                    ELSE /\ UNCHANGED sleeps
                         /\ Break
             ELSE /\ UNCHANGED sleeps
                  /\ Break

\* Lines 166-177.
HandleJSONDecodeError ==
    /\ pc = "loop"
    /\ \E reply \in BackendReplies :
        /\ TryBody(reply).exc # NoExc
        /\ Handler(TryBody(reply).exc) = "JSONDecodeError"
        /\ Posted(reply)
        /\ UNCHANGED <<served, sleeps>>
        /\ IF attempt < total_tries THEN Continue ELSE Break

\* Lines 180-191.
HandleRequestException ==
    /\ pc = "loop"
    /\ \E reply \in BackendReplies :
        /\ TryBody(reply).exc # NoExc
        /\ Handler(TryBody(reply).exc) = "RequestException"
        /\ Posted(reply)
        /\ UNCHANGED served
        /\ IF attempt < total_tries
             THEN /\ sleeps' = Append(sleeps, WaitTime(attempt))
                  /\ Continue
             ELSE /\ UNCHANGED sleeps
                  /\ Break

\* Lines 194-197.
HandleException ==
    /\ pc = "loop"
    /\ \E reply \in BackendReplies :
        /\ TryBody(reply).exc # NoExc
        /\ Handler(TryBody(reply).exc) = "Exception"
        /\ Posted(reply)
        /\ UNCHANGED <<served, sleeps>>
        /\ Break

Next ==
    \/ Call
    \/ AttemptReturns
    \/ HandleHTTPError
    \/ HandleJSONDecodeError
    \/ HandleRequestException
    \/ HandleException

Spec == Init /\ [][Next]_all_vars

\* The loop is synchronous code and every POST carries a timeout, so an
\* iteration that has started ends: the call is never suspended for ever.
FairSpec == Spec /\ WF_all_vars(Next)

\* ------------------------------------------------- vocabulary of the claims
\* The attempt budget N of the running call, as the interface documents it:
\* the per-call override when one is given (0 included), else the default.
Budget == IF override = <<>> THEN self_max_retries ELSE override[1]

\* Some supplied image has a side shorter than 28.
SomeImageSmall ==
    \E k \in 1..Len(image.imgs) :
        image.imgs[k].width < 28 \/ image.imgs[k].height < 28

\* The call has returned after at least one POST.
Ended == pc = "returned" /\ posts >= 1

TransientHTTP(e) == e.exc = "HTTPError" /\ e.status \in {429, 500, 503}
Malformed(e) == e.exc \in {"RequestsJSONDecodeError", "JSONDecodeError"}
Transport(e) == e.exc \in {"ConnectionError", "Timeout"}
NonRetriable(e) ==
    \/ e.exc = "HTTPError" /\ e.status \notin {429, 500, 503}
    \/ e.exc \in {"KeyError", "RuntimeError"}
Failed(e) == e.exc # NoExc

\* The call has ended and every POST of it failed in the same way.
AllTransient == Ended /\ \A k \in 1..Len(trace) : TransientHTTP(trace[k])
AllMalformed == Ended /\ \A k \in 1..Len(trace) : Malformed(trace[k])
AllTransport == Ended /\ \A k \in 1..Len(trace) : Transport(trace[k])

\* The sleeps 1 x wait, 2 x wait, ..., n x wait.
LinearBackoff(n) == [k \in 1..n |-> k * self_retry_wait_time]

\* -------------------------------------------------------------------- C1
\* C1: a call against a backend that always answers 429, 500 or 503 makes
\* exactly N + 1 POSTs and sleeps k x retry_wait_time after the k-th failure,
\* k = 1..N, with no sleep after the last.
C1_TransientRetryBudget ==
    AllTransient =>
        /\ posts = Budget + 1
        /\ sleeps = LinearBackoff(Budget)

\* -------------------------------------------------------------------- C2
\* C2: no failure inside the attempt loop makes the call raise, and a call
\* whose attempts all failed, the budget exhausted, returns {}.
C2_NeverRaises ==
    /\ posts >= 1 => pc # "raised"
    /\ (posts >= 1 /\ Failed(trace[Len(trace)]) /\ pc # "loop") =>
            pc = "returned" /\ result = "empty"
    /\ (posts = Budget + 1 /\ \A k \in 1..Len(trace) : Failed(trace[k])) =>
            pc = "returned" /\ result = "empty"

C2_Witness ==
    /\ pc = "returned"
    /\ result = "empty"
    /\ Budget = 2
    /\ posts = 3
    /\ trace[1].exc = "Timeout"
    /\ trace[2].exc = "RequestsJSONDecodeError"
    /\ trace[3].exc = "JSONDecodeError"

\* -------------------------------------------------------------------- C3
\* C3: an attempt that fails with a non-retriable error (an HTTP status
\* other than 429/500/503, or an exception that is no HTTP, JSON-decode or
\* transport error) is the call's last: the call returns {} without sleeping
\* after it, so such a failure on the first attempt means exactly one POST
\* and no sleep, whatever max_retries is.
C3_NonRetriableStops ==
    \A k \in 1..Len(trace) :
        NonRetriable(trace[k]) =>
            /\ k = Len(trace)
            /\ posts = k
            /\ pc = "returned"
            /\ result = "empty"
            /\ Len(sleeps) < k
            /\ k = 1 => sleeps = <<>>

C3_Witness ==
    /\ pc = "returned"
    /\ Budget = 2
    /\ posts = 1
    /\ trace[1].exc = "HTTPError"
    /\ trace[1].status = 404
    /\ sleeps = <<>>
    /\ result = "empty"

\* -------------------------------------------------------------------- C4
\* C4: when some supplied image has width < 28 or height < 28 the call
\* returns {} with no POST, no sleep and the block untouched, whatever
\* max_retries is; when no supplied image is that small the guard does not
\* end the call (it goes on to its first POST).
C4_SmallImageGuard ==
    pc # "idle" =>
        /\ SomeImageSmall =>
            /\ pc = "returned"
            /\ result = "empty"
            /\ posts = 0
            /\ sleeps = <<>>
            /\ block = pre_block
        /\ (~SomeImageSmall /\ "required" \in DOMAIN response_schema) =>
            pc = "loop" \/ posts >= 1

C4_Witness ==
    /\ pc = "returned"
    /\ image = [kind |-> "list",
                imgs |-> <<[width |-> 28, height |-> 28],
                           [width |-> 28, height |-> 27]>>]
    /\ Budget = 2
    /\ block_arg
    /\ posts = 0
    /\ result = "empty"

\* -------------------------------------------------------------------- C5
\* C5: a call with a target block that returns a parsed result has raised
\* the block's request count by exactly 1 and its tokens by exactly
\* prompt_eval_count + eval_count of the successful reply (missing: 0), also
\* when earlier attempts of the call failed.
C5_AccountingOnSuccess ==
    (pc = "returned" /\ result = "parsed" /\ block_arg) =>
        /\ block.llm_request_count = pre_block.llm_request_count + 1
        /\ block.llm_tokens_used = pre_block.llm_tokens_used
              + (IF "prompt_eval_count" \in DOMAIN served.usage
                   THEN served.usage["prompt_eval_count"] ELSE 0)
              + (IF "eval_count" \in DOMAIN served.usage
                   THEN served.usage["eval_count"] ELSE 0)

\* -------------------------------------------------------------------- C6
\* C6: whenever the call returns {}, the block's counters are what they
\* were before the call.
C6_FailureLeavesBlock ==
    (pc = "returned" /\ result = "empty") => block = pre_block

\* -------------------------------------------------------------------- C7
\* C7: a call whose every reply fails JSON decoding makes exactly N + 1
\* POSTs, never sleeps and returns {}.
C7_MalformedRetries ==
    /\ AllMalformed =>
        /\ posts = Budget + 1
        /\ sleeps = <<>>
        /\ result = "empty"
    /\ (\A k \in 1..Len(trace) : Malformed(trace[k])) => sleeps = <<>>

C7_Witness ==
    /\ AllMalformed
    /\ Budget = 2
    /\ posts = 3
    /\ trace[1].exc = "RequestsJSONDecodeError"
    /\ trace[2].exc = "JSONDecodeError"
    /\ sleeps = <<>>

C9_Budget ==
    /\ posts = Len(trace)
    /\ posts <= Budget + 1
    /\ (pc = "returned" /\ ~SomeImageSmall) => posts >= 1
    /\ \A k \in 1..Len(trace) : ~Failed(trace[k]) => k = Len(trace)
    /\ pc = "loop" => posts < Budget + 1

C10_SchemaInFormat ==
    posts >= 1 =>
        /\ payload.format["properties"] = response_schema["properties"]
        /\ payload.format["required"] = response_schema["required"]
        /\ "$defs" \in DOMAIN payload.format <=> "$defs" \in DOMAIN response_schema
        /\ "$defs" \in DOMAIN response_schema =>
                payload.format["$defs"] = response_schema["$defs"]

C10_Witness ==
    /\ posts >= 1
    /\ "$defs" \in DOMAIN response_schema
    /\ "$defs" \in DOMAIN payload.format
    /\ payload.format["$defs"] = "D"

(***************************************************************************)
(* PdfConverter.__init__ (src/marker/converters/pdf.py, lines 181-227):    *)
(* which processors and which LLM service a converter is built with.       *)
(*                                                                         *)
(* A processor or service class is its name; a service instance is the     *)
(* pair of a serial number and its class, so that two instances of one     *)
(* class differ.  Of artifact_dict only the "llm_service" entry is kept,   *)
(* the one entry the converter writes.                                     *)
(***************************************************************************)

\* The state of the service model while a converter is looked at.
ServiceIdle ==
    /\ self_max_retries = DefaultRetries
    /\ self_retry_wait_time = RetryWait
    /\ block = [llm_request_count |-> 0, llm_tokens_used |-> 0]
    /\ pre_block = block
    /\ image = [kind |-> "none", imgs |-> <<>>]
    /\ block_arg = FALSE
    /\ response_schema = [k \in {"properties"} |-> SchemaPart(k)]
    /\ override = <<>>
    /\ max_retries = 0
    /\ total_tries = 0
    /\ attempt = 0
    /\ payload = NoPayload
    /\ posts = 0
    /\ sleeps = <<>>
    /\ trace = <<>>
    /\ pc = "idle"
    /\ result = "none"
    /\ served = NoReply

\* Mutant: the table-merge processor listed before the table processors.
default_processors_merge_first ==
    << "OrderProcessor", "BlockRelabelProcessor", "LineMergeProcessor",
       "BlockquoteProcessor", "CodeProcessor", "DocumentTOCProcessor",
       "EquationProcessor", "FootnoteProcessor", "IgnoreTextProcessor",
       "LineNumbersProcessor", "ListProcessor", "PageHeaderProcessor",
       "SectionHeaderProcessor", "LLMTableMergeProcessor", "TableProcessor",
       "LLMTableProcessor", "LLMFormProcessor", "TextProcessor",
       "LLMComplexRegionProcessor", "LLMImageDescriptionProcessor",
       "LLMEquationProcessor", "LLMHandwritingProcessor",
       "LLMMathBlockProcessor", "LLMSectionHeaderProcessor",
       "LLMPageCorrectionProcessor", "ReferenceProcessor",
       "BlankPageProcessor", "DebugProcessor" >>

\* Lines 115-144.
default_processors ==
    << "OrderProcessor", "BlockRelabelProcessor", "LineMergeProcessor",
       "BlockquoteProcessor", "CodeProcessor", "DocumentTOCProcessor",
       "EquationProcessor", "FootnoteProcessor", "IgnoreTextProcessor",
       "LineNumbersProcessor", "ListProcessor", "PageHeaderProcessor",
       "SectionHeaderProcessor", "TableProcessor", "LLMTableProcessor",
       "LLMTableMergeProcessor", "LLMFormProcessor", "TextProcessor",
       "LLMComplexRegionProcessor", "LLMImageDescriptionProcessor",
       "LLMEquationProcessor", "LLMHandwritingProcessor",
       "LLMMathBlockProcessor", "LLMSectionHeaderProcessor",
       "LLMPageCorrectionProcessor", "ReferenceProcessor",
       "BlankPageProcessor", "DebugProcessor" >>

\* Line 145.
default_llm_service == "GoogleGeminiService"

\* Mutant: the table-merge processor filed under the table toggle.
llm_processor_toggles_copied ==
    "LLMTableProcessor" :> "enable_llm_table"
    @@ "LLMTableMergeProcessor" :> "enable_llm_table"
    @@ "LLMFormProcessor" :> "enable_llm_form"
    @@ "LLMComplexRegionProcessor" :> "enable_llm_complex_region"
    @@ "LLMImageDescriptionProcessor" :> "enable_llm_image_description"
    @@ "LLMEquationProcessor" :> "enable_llm_equation"
    @@ "LLMHandwritingProcessor" :> "enable_llm_handwriting"
    @@ "LLMMathBlockProcessor" :> "enable_llm_mathblock"
    @@ "LLMSectionHeaderProcessor" :> "enable_llm_section_header"
    @@ "LLMPageCorrectionProcessor" :> "enable_llm_page_correction"

\* Lines 154-165.
llm_processor_toggles ==
    "LLMTableProcessor" :> "enable_llm_table"
    @@ "LLMTableMergeProcessor" :> "enable_llm_table_merge"
    @@ "LLMFormProcessor" :> "enable_llm_form"
    @@ "LLMComplexRegionProcessor" :> "enable_llm_complex_region"
    @@ "LLMImageDescriptionProcessor" :> "enable_llm_image_description"
    @@ "LLMEquationProcessor" :> "enable_llm_equation"
    @@ "LLMHandwritingProcessor" :> "enable_llm_handwriting"
    @@ "LLMMathBlockProcessor" :> "enable_llm_mathblock"
    @@ "LLMSectionHeaderProcessor" :> "enable_llm_section_header"
    @@ "LLMPageCorrectionProcessor" :> "enable_llm_page_correction"

\* Lines 75-114: the toggle attributes of the converter.
ToggleAttrs ==
    {"enable_llm_table", "enable_llm_table_merge", "enable_llm_form",
     "enable_llm_complex_region", "enable_llm_image_description",
     "enable_llm_equation", "enable_llm_handwriting", "enable_llm_mathblock",
     "enable_llm_section_header", "enable_llm_page_correction"}

\* Lines 167-179: getattr(self, toggle_attr, True) reads the attribute tg
\* holds.
FilterProcessorsByConfig(processors, tg) ==
    SelectSeq(processors,
              LAMBDA p : IF p \in DOMAIN llm_processor_toggles
                           THEN tg[llm_processor_toggles[p]]
                           ELSE TRUE)

\* strings_to_classes: the classes the names stand for, in the order given.
strings_to_classes(names) == names

\* Mutant: `if processor_list:` in place of `if processor_list is not None:`.
ResolveProcessorClassesTruthy(arg, tg) ==
    IF arg # <<>> /\ arg[1] # <<>>
        THEN strings_to_classes(arg[1])
        ELSE FilterProcessorsByConfig(default_processors, tg)

\* Lines 197-201.
ResolveProcessorClasses(arg, tg) ==
    IF arg # <<>>
        THEN strings_to_classes(arg[1])
        ELSE FilterProcessorsByConfig(default_processors, tg)

\* Lines 211-215: the service instance built (the serial-th one), if any.
ResolveLLMService(llm_arg, use, serial) ==
    IF llm_arg # ""
        THEN [id |-> serial, cls |-> llm_arg]
    ELSE IF use
        THEN [id |-> serial, cls |-> default_llm_service]
    ELSE NoService

\* Mutant: line 218 placed after line 223.
DictAtInitializationLate(dict, service) == dict

\* Lines 218 and 223: the artifact_dict entry the processors are initialized
\* against is the one line 218 has written.
DictAtInitialization(dict, service) == <<service>>

\* Whether a processor class declares an llm_service parameter.
WantsLLMService(cls) == cls \in DOMAIN llm_processor_toggles

\* BaseConverter.resolve_dependencies, for the llm_service parameter: the
\* value artifact_dict holds under that name.
resolve_dependencies(cls, dict) ==
    [cls |-> cls,
     llm_service |-> IF WantsLLMService(cls) THEN dict[1] ELSE NoService]

\* BaseConverter.resolve_dependencies raises when a required parameter is
\* neither in artifact_dict nor defaulted.
Unresolvable(classes, dict) ==
    dict = <<>> /\ \E k \in 1..Len(classes) : WantsLLMService(classes[k])

\* BaseConverter.initialize_processors: one instance per class, in order.
initialize_processors(classes, dict) ==
    [k \in 1..Len(classes) |-> resolve_dependencies(classes[k], dict)]

\* The processor_list arguments looked at.
ExplicitLists ==
    { <<>>,
      <<"LLMTableMergeProcessor", "TableProcessor">>,
      <<"TextProcessor", "LLMFormProcessor", "TextProcessor">> }

\* The llm_service arguments looked at.
ServiceNames == {"", "marker.services.ollama.OllamaService"}

\* What the caller's artifact_dict holds under "llm_service" before the
\* converter is built: nothing, None, or the service of an earlier converter
\* (services the model did not build carry the serial number 0).
EarlierService == [id |-> 0, cls |-> "EarlierService"]
ArtifactDicts == {<<>>, <<NoService>>, <<EarlierService>>}

\* A converter about to be built: the arguments and configuration of
\* __init__.
Unbuilt ==
    /\ use_llm \in BOOLEAN
    /\ toggles \in [ToggleAttrs -> BOOLEAN]
    /\ processor_list_arg \in {<<>>} \cup {<<l>> : l \in ExplicitLists}
    /\ llm_service_arg \in ServiceNames
    /\ artifact_dict \in ArtifactDicts
    /\ services_built = 0
    /\ self_llm_service = NoService
    /\ processor_list = <<>>
    /\ page_count = <<>>
    /\ pre_page_count = <<>>
    /\ conv_pc = "new"
    /\ file_input = "none"
    /\ temp_file = "none"
    /\ input_file = "exists"
    /\ temp_path = ""
    /\ document = NoDocument
    /\ proc_index = 0
    /\ events = <<>>
    /\ merge_saw = "none"
    /\ error = ""
    /\ rendered = ""
    /\ convs = <<>>
    /\ ServerIdle

PdfConfigInit == ServiceIdle /\ Unbuilt

\* Lines 181-227, the whole of __init__.
Construct ==
    /\ conv_pc = "new"
    /\ LET classes == ResolveProcessorClasses(processor_list_arg, toggles)
           service == ResolveLLMService(llm_service_arg, use_llm,
                                        services_built + 1)
           dict == DictAtInitialization(artifact_dict, service)
       IN  /\ services_built' = IF service = NoService THEN services_built
                                                       ELSE services_built + 1
           /\ artifact_dict' = <<service>>
           /\ self_llm_service' = service
           /\ IF Unresolvable(classes, dict)
                THEN /\ conv_pc' = "raised"
                     /\ error' = "ValueError"
                     /\ UNCHANGED processor_list
                ELSE /\ conv_pc' = "ready"
                     /\ processor_list' = initialize_processors(classes, dict)
                     /\ UNCHANGED error
    /\ page_count' = <<>>
    /\ UNCHANGED <<use_llm, toggles, processor_list_arg, llm_service_arg,
                   pre_page_count, file_input, temp_file, input_file, temp_path, document,
                   proc_index, events, merge_saw, rendered, convs>>
    /\ UNCHANGED <<vars, srv_vars>>

PdfConfigNext == Construct

PdfConfigSpec == PdfConfigInit /\ [][PdfConfigNext]_all_vars

(***************************************************************************)
(* Claims C12, C13, C14 and C18, about construction (PdfConfigSpec).       *)
(***************************************************************************)

\* The classes of the resolved processor list, in order.
ResolvedClasses == [k \in DOMAIN processor_list |-> processor_list[k].cls]

\* The ten LLM-backed processors and the toggle documented for each.
DocumentedToggles ==
    { <<"LLMTableProcessor", "enable_llm_table">>,
      <<"LLMTableMergeProcessor", "enable_llm_table_merge">>,
      <<"LLMFormProcessor", "enable_llm_form">>,
      <<"LLMComplexRegionProcessor", "enable_llm_complex_region">>,
      <<"LLMImageDescriptionProcessor", "enable_llm_image_description">>,
      <<"LLMEquationProcessor", "enable_llm_equation">>,
      <<"LLMHandwritingProcessor", "enable_llm_handwriting">>,
      <<"LLMMathBlockProcessor", "enable_llm_mathblock">>,
      <<"LLMSectionHeaderProcessor", "enable_llm_section_header">>,
      <<"LLMPageCorrectionProcessor", "enable_llm_page_correction">> }

LLMBacked(p) == \E d \in DocumentedToggles : d[1] = p

Disabled(p) == \E d \in DocumentedToggles : d[1] = p /\ ~toggles[d[2]]

DefaultMinusDisabled ==
    SelectSeq(default_processors, LAMBDA p : ~Disabled(p))

Occurs(p, list) == \E k \in 1..Len(list) : list[k] = p

\* C12: with use_llm true and no explicit processor list, for every
\* combination of the ten toggles the resolved list is the default list
\* without the processors whose toggle is false, in the default order, and
\* every processor that is not LLM-backed is in it.
C12_ToggleFiltering ==
    (conv_pc = "ready" /\ use_llm /\ processor_list_arg = <<>>) =>
        /\ ResolvedClasses = DefaultMinusDisabled
        /\ \A k \in 1..Len(default_processors) :
               ~LLMBacked(default_processors[k]) =>
                   Occurs(default_processors[k], ResolvedClasses)

\* A converter built with only the form toggle off: 27 of the 28 processors.
C12_Witness ==
    /\ conv_pc = "ready" /\ use_llm /\ processor_list_arg = <<>>
    /\ \A a \in ToggleAttrs : toggles[a] <=> a # "enable_llm_form"
    /\ Len(processor_list) = Len(default_processors) - 1
    /\ ~Occurs("LLMFormProcessor", ResolvedClasses)

\* C13: with use_llm false and no explicit processor list the toggles are
\* not consulted: the resolved list is the full default list whatever the
\* toggles are.
C13_TogglesNeedUseLLM ==
    (conv_pc = "ready" /\ ~use_llm /\ processor_list_arg = <<>>) =>
        ResolvedClasses = default_processors

\* C14: an explicit processor list is used verbatim, whatever use_llm and the
\* toggles are: same processors, same order.
C14_ExplicitListVerbatim ==
    (conv_pc = "ready" /\ processor_list_arg # <<>>) =>
        ResolvedClasses = processor_list_arg[1]

\* An explicit list that names a processor whose toggle is off, in an order
\* that is not the default one, kept as given.
C14_Witness ==
    /\ conv_pc = "ready"
    /\ processor_list_arg = << <<"LLMTableMergeProcessor", "TableProcessor">> >>
    /\ ~toggles["enable_llm_table_merge"]
    /\ ResolvedClasses = <<"LLMTableMergeProcessor", "TableProcessor">>

\* The service construction is documented to build.
DocumentedService ==
    IF llm_service_arg # ""
        THEN [id |-> 1, cls |-> llm_service_arg]
    ELSE IF use_llm
        THEN [id |-> 1, cls |-> "GoogleGeminiService"]
    ELSE NoService

\* C18: construction builds at most one LLM service (the named one if one
\* is named, else the default one when use_llm is true, else none), puts it
\* in the artifact context under "llm_service", and every processor of the
\* converter that asks for an LLM service holds that same instance.
C18_SingleLLMService ==
    conv_pc = "ready" =>
        /\ services_built <= 1
        /\ services_built = IF self_llm_service = NoService THEN 0 ELSE 1
        /\ self_llm_service = DocumentedService
        /\ artifact_dict = <<self_llm_service>>
        /\ \A k \in 1..Len(processor_list) :
               LLMBacked(processor_list[k].cls) =>
                   processor_list[k].llm_service = self_llm_service

\* A converter with the default service, held by its LLM-backed processors.
C18_Witness ==
    /\ conv_pc = "ready" /\ use_llm /\ llm_service_arg = ""
    /\ services_built = 1
    /\ self_llm_service.cls = "GoogleGeminiService"
    /\ \E k \in 1..Len(processor_list) :
           /\ LLMBacked(processor_list[k].cls)
           /\ processor_list[k].llm_service = self_llm_service

(***************************************************************************)
(* PdfConverter.__call__ (src/marker/converters/pdf.py, lines 229-275):    *)
(* one conversion by a constructed converter.  Each collaborator the       *)
(* converter calls (the builders, the structure builder, a processor, the  *)
(* renderer) either returns or raises, and is one step; a step that raises *)
(* leaves the with block of line 270, so it ends with the cleanup of       *)
(* filepath_to_str.                                                        *)
(***************************************************************************)

MaxPages == 1

\* The inputs of __call__ looked at: a path, a byte buffer, anything else.
InputKinds == {"str", "BytesIO", "other"}

\* The region types a built document's one region starts with.
RegionTypes == {"unclassified", "text"}

\* One collaborator run by the conversion.
Event(step, index, cls, doc, exc) ==
    [step |-> step, index |-> index, cls |-> cls, doc |-> doc, exc |-> exc]

\* Mutant: no type check, anything that is not a path is written out.
RaisesTypeErrorNever(kind) == FALSE

\* Lines 239-245: the else branch raises TypeError.
RaisesTypeError(kind) == kind \notin {"str", "BytesIO"}

\* Mutant: the cleanup removes the path that was yielded when it is the
\* caller's, and nothing else.
UnlinkedYielded(tf, path) == IF path = "input" THEN "input" ELSE "nothing"

\* Lines 247-250: the finally clause removes the temporary file, if one was
\* created.
Unlinked(tf, path) == IF tf # "none" THEN "temp" ELSE "nothing"

\* The files after the with block of line 270 is left.
Leave(tf, path) ==
    LET u == Unlinked(tf, path)
    IN  /\ temp_file' = IF u = "temp" THEN "removed" ELSE tf
        /\ input_file' = IF u = "input" THEN "removed" ELSE input_file

\* Mutant: an exception of a collaborator is swallowed.
PropagatesNever(exc) == FALSE

\* Lines 252-275 hold no except clause: what a collaborator raises leaves
\* __call__.
Propagates(exc) == exc # ""

\* Mutant: the processors run last to first.
ProcessorAtReversed(list, k) == list[Len(list) + 1 - k]

\* Lines 264-265: the k-th processor the loop runs.
ProcessorAt(list, k) == list[k]

\* What a processor does to the document's region: the table processor
\* types an unclassified region "table".
ProcessorEffect(cls, doc) ==
    IF cls = "TableProcessor" /\ doc.region = "unclassified"
        THEN [doc EXCEPT !.region = "table"]
        ELSE doc

\* A constructed converter: the outcome of __init__, computed as Construct
\* computes it, for a configuration with use_llm true that names no service;
\* an explicit processor list comes with the toggles at their defaults.  The
\* converter is new (page_count None) or has converted MaxPages pages before.
Constructed ==
    /\ use_llm = TRUE
    /\ toggles \in [ToggleAttrs -> BOOLEAN]
    /\ processor_list_arg \in {<<>>} \cup {<<l>> : l \in ExplicitLists}
    /\ processor_list_arg # <<>> => \A a \in ToggleAttrs : toggles[a]
    /\ llm_service_arg = ""
    /\ self_llm_service = ResolveLLMService(llm_service_arg, use_llm, 1)
    /\ services_built = IF self_llm_service = NoService THEN 0 ELSE 1
    /\ artifact_dict = <<self_llm_service>>
    /\ processor_list =
           initialize_processors(
               ResolveProcessorClasses(processor_list_arg, toggles),
               DictAtInitialization(<<>>, self_llm_service))
    /\ page_count \in {<<>>, <<MaxPages>>}
    /\ pre_page_count = page_count
    /\ conv_pc = "ready"
    /\ file_input = "none"
    /\ temp_file = "none"
    /\ input_file = "exists"
    /\ temp_path = ""
    /\ document = NoDocument
    /\ proc_index = 0
    /\ events = <<>>
    /\ merge_saw = "none"
    /\ error = ""
    /\ rendered = ""
    /\ convs = <<>>
    /\ ServerIdle

PdfInit == ServiceIdle /\ Constructed

\* What a conversion never changes.
ConverterKept ==
    /\ UNCHANGED <<use_llm, toggles, processor_list_arg, llm_service_arg,
                   artifact_dict, services_built, self_llm_service,
                   processor_list, pre_page_count, convs>>
    /\ UNCHANGED <<vars, srv_vars>>

\* A collaborator raised exc: it leaves __call__ through the with block.
Raise(exc) ==
    /\ conv_pc' = "raised"
    /\ error' = exc
    /\ Leave(temp_file, temp_path)

\* Lines 269-270 and 229-246: __call__ is entered and filepath_to_str runs
\* to its yield, or raises.
Enter ==
    /\ conv_pc = "ready"
    /\ \E kind \in InputKinds, written \in BOOLEAN :
          /\ file_input' = kind
          /\ IF kind = "str"
               THEN /\ written
                    /\ temp_path' = "input"
                    /\ conv_pc' = "entered"
                    /\ UNCHANGED <<temp_file, input_file, error>>
             ELSE IF RaisesTypeError(kind)
               THEN /\ written
                    /\ conv_pc' = "raised"
                    /\ error' = "TypeError"
                    /\ Leave("exists", "")
                    /\ UNCHANGED temp_path
             ELSE IF written
               THEN /\ temp_file' = "exists"
                    /\ temp_path' = "temp"
                    /\ conv_pc' = "entered"
                    /\ UNCHANGED <<input_file, error>>
             ELSE /\ conv_pc' = "raised"
                  /\ error' = "OSError"
                  /\ Leave("exists", "")
                  /\ UNCHANGED temp_path
    /\ UNCHANGED <<page_count, document, proc_index, events, merge_saw,
                   rendered>>
    /\ ConverterKept

\* Lines 252-260: the provider and the layout, line and OCR builders build
\* the document, or one of them raises.
BuildDocument ==
    /\ conv_pc = "entered"
    /\ \E exc \in {"", "BuilderFailure"}, n \in 0..MaxPages, r \in RegionTypes :
          /\ events' = Append(events, Event("build", 0, "DocumentBuilder", 0, exc))
          /\ IF Propagates(exc)
               THEN /\ n = 0 /\ r = "text"
                    /\ Raise(exc)
                    /\ UNCHANGED document
               ELSE /\ document' = [id |-> 1, pages |-> n, region |-> r]
                    /\ conv_pc' = "built"
                    /\ UNCHANGED <<temp_file, input_file, error>>
    /\ UNCHANGED <<page_count, file_input, temp_path, proc_index, merge_saw,
                   rendered>>
    /\ ConverterKept

\* Lines 261-262: the structure builder.
Structure ==
    /\ conv_pc = "built"
    /\ \E exc \in {"", "BuilderFailure"} :
          /\ events' = Append(events, Event("structure", 0, "StructureBuilder",
                                            document.id, exc))
          /\ IF Propagates(exc)
               THEN Raise(exc) /\ UNCHANGED proc_index
               ELSE /\ conv_pc' = "processing"
                    /\ proc_index' = 1
                    /\ UNCHANGED <<temp_file, input_file, error>>
    /\ UNCHANGED <<page_count, file_input, temp_path, document, merge_saw,
                   rendered>>
    /\ ConverterKept

\* Lines 264-265: one round of the processor loop.
RunProcessor ==
    /\ conv_pc = "processing"
    /\ proc_index <= Len(processor_list)
    /\ \E exc \in {"", "ProcessorFailure"} :
          LET processor == ProcessorAt(processor_list, proc_index)
          IN  /\ events' = Append(events, Event("processor", proc_index,
                                                processor.cls, document.id, exc))
              /\ merge_saw' = IF processor.cls = "LLMTableMergeProcessor"
                                THEN document.region ELSE merge_saw
              /\ IF Propagates(exc)
                   THEN Raise(exc) /\ UNCHANGED <<document, proc_index>>
                   ELSE /\ document' = ProcessorEffect(processor.cls, document)
                        /\ proc_index' = proc_index + 1
                        /\ UNCHANGED <<conv_pc, temp_file, input_file, error>>
    /\ UNCHANGED <<page_count, file_input, temp_path, rendered>>
    /\ ConverterKept

\* Mutant: the page count is recorded only while it is None.
CountedPagesOnce(doc, prior) == IF prior = <<>> THEN <<doc.pages>> ELSE prior

\* Line 272: len(document.pages), whatever self.page_count held.
CountedPages(doc, prior) == <<doc.pages>>

\* Lines 266-267 and 271-272: build_document returns and the page count is
\* recorded.
SetPageCount ==
    /\ conv_pc = "processing"
    /\ proc_index > Len(processor_list)
    /\ page_count' = CountedPages(document, page_count)
    /\ conv_pc' = "counted"
    /\ UNCHANGED <<file_input, temp_file, input_file, temp_path, document,
                   proc_index, events, merge_saw, error, rendered>>
    /\ ConverterKept

\* Lines 273-275: the renderer, and the return through the with block.
Render ==
    /\ conv_pc = "counted"
    /\ \E exc \in {"", "RendererFailure"} :
          /\ events' = Append(events, Event("render", 0, "Renderer",
                                            document.id, exc))
          /\ IF Propagates(exc)
               THEN Raise(exc) /\ UNCHANGED rendered
               ELSE /\ rendered' = "rendering"
                    /\ conv_pc' = "returned"
                    /\ Leave(temp_file, temp_path)
                    /\ UNCHANGED error
    /\ UNCHANGED <<page_count, file_input, temp_path, document, proc_index,
                   merge_saw>>
    /\ ConverterKept

PdfNext ==
    \/ Enter
    \/ BuildDocument
    \/ Structure
    \/ RunProcessor
    \/ SetPageCount
    \/ Render

PdfSpec == PdfInit /\ [][PdfNext]_all_vars

(***************************************************************************)
(* Claims C11, C15, C16, C17 and C20, about one conversion (PdfSpec).      *)
(***************************************************************************)

\* The step documented for the i-th collaborator of a conversion.
DocumentedStep(i) ==
    IF i = 1 THEN "build"
    ELSE IF i = 2 THEN "structure"
    ELSE IF i <= Len(processor_list) + 2 THEN "processor"
    ELSE "render"

\* C11: the collaborators of a conversion run in this order and no other:
\* document build, the structure builder once, every processor of the
\* resolved list once, in list order, on the document that was built, then
\* the renderer once; each starts only when the one before has returned, and
\* a conversion that returned has run them all.
C11_StepOrder ==
    /\ \A i \in DOMAIN events :
          /\ i <= Len(processor_list) + 3
          /\ events[i].step = DocumentedStep(i)
          /\ i > 1 => events[i - 1].exc = ""
          /\ i > 1 => events[i].doc = 1
          /\ events[i].step = "processor" =>
                 /\ events[i].index = i - 2
                 /\ events[i].cls = processor_list[i - 2].cls
    /\ conv_pc = "returned" =>
          /\ Len(events) = Len(processor_list) + 3
          /\ events[Len(events)].exc = ""

\* A conversion through all 28 default processors that returned.
C11_Witness ==
    /\ conv_pc = "returned"
    /\ Len(processor_list) = Len(default_processors)
    /\ Len(events) = Len(default_processors) + 3
    /\ rendered = "rendering"

\* C15: given a byte buffer, the temporary file no longer exists once the
\* conversion has returned or raised, whichever step failed; given a path, no
\* temporary file is created and the file at that path is never removed.
C15_TempFileScoped ==
    /\ (file_input = "BytesIO" /\ conv_pc \in {"returned", "raised"}) =>
           temp_file = "removed"
    /\ file_input = "str" => (temp_file = "none" /\ input_file = "exists")

\* A conversion of a byte buffer that a processor ended.
C15_Witness ==
    /\ file_input = "BytesIO"
    /\ conv_pc = "raised"
    /\ error = "ProcessorFailure"
    /\ temp_file = "removed"

\* C16: an input that is neither a path nor a byte buffer raises a type error
\* before any builder, processor or renderer runs, leaves page_count as it
\* was and leaves no temporary file.
C16_InputTypeError ==
    file_input = "other" =>
        /\ conv_pc = "raised"
        /\ error = "TypeError"
        /\ events = <<>>
        /\ rendered = ""
        /\ page_count = pre_page_count
        /\ temp_file # "exists"

\* A converter that had counted pages before is given such an input.
C16_Witness ==
    /\ file_input = "other"
    /\ error = "TypeError"
    /\ page_count = <<MaxPages>>
    /\ temp_file = "removed"

\* C17: what a builder or the k-th processor raises is what the conversion
\* raises: nothing runs after it, neither a later processor nor the renderer,
\* and no rendering is returned.
C17_FailurePropagates ==
    \A i \in DOMAIN events :
        (events[i].step \in {"build", "structure", "processor"}
            /\ events[i].exc # "") =>
                /\ i = Len(events)
                /\ conv_pc = "raised"
                /\ error = events[i].exc
                /\ rendered = ""

\* The second of several processors raised.
C17_Witness ==
    /\ conv_pc = "raised"
    /\ error = "ProcessorFailure"
    /\ Len(events) = 4
    /\ events[4].step = "processor"
    /\ Len(processor_list) > 2

\* C20: whenever the toggles keep the table-merge processor in the resolved
\* default list, the table processor has run when the merge processor starts:
\* the merge processor sees the region as the table processor left it, never
\* "unclassified".
C20_TableBeforeMerge ==
    (processor_list_arg = <<>> /\ Occurs("LLMTableMergeProcessor", ResolvedClasses)) =>
        /\ merge_saw # "unclassified"
        /\ merge_saw # "none" =>
               \E i \in DOMAIN events :
                   /\ events[i].cls = "TableProcessor"
                   /\ events[i].exc = ""
                   /\ i < Len(events)

\* The merge processor saw "table", with the LLM table processor switched off.
C20_Witness ==
    /\ processor_list_arg = <<>>
    /\ ~toggles["enable_llm_table"]
    /\ merge_saw = "table"
    /\ document.region = "table"

(***************************************************************************)
(* Two converters built over one artifact_dict, as convert_pdf_upload      *)
(* (src/marker/scripts/server.py, lines 339-346) builds every converter    *)
(* over app_data["models"].  Line 209 of pdf.py keeps a reference to the   *)
(* caller's dict, so line 218 of one converter writes the entry the other  *)
(* converter reads when it resolves its builders and renderer at call time *)
(* (pdf.py, lines 254-261 and 273).                                        *)
(***************************************************************************)

Orchestrators == {"A", "B"}

NoConverter ==
    [state |-> "new", llm_service |-> NoService, processors |-> {},
     at_call |-> {}]

\* The services the LLM-backed processors of a list hold.
ServicesHeld(list) ==
    {list[k].llm_service : k \in {j \in 1..Len(list) : WantsLLMService(list[j].cls)}}

SharedInit ==
    /\ ServiceIdle
    /\ use_llm = FALSE
    /\ toggles = [a \in ToggleAttrs |-> TRUE]
    /\ processor_list_arg = <<>>
    /\ llm_service_arg = ""
    /\ artifact_dict = <<>>
    /\ services_built = 0
    /\ self_llm_service = NoService
    /\ processor_list = <<>>
    /\ page_count = <<>>
    /\ pre_page_count = <<>>
    /\ conv_pc = "none"
    /\ file_input = "none"
    /\ temp_file = "none"
    /\ input_file = "exists"
    /\ temp_path = ""
    /\ document = NoDocument
    /\ proc_index = 0
    /\ events = <<>>
    /\ merge_saw = "none"
    /\ error = ""
    /\ rendered = ""
    /\ convs = [c \in Orchestrators |-> NoConverter]
    /\ ServerIdle

SharedKept ==
    /\ UNCHANGED <<use_llm, toggles, processor_list_arg, llm_service_arg,
                   self_llm_service, processor_list, page_count,
                   pre_page_count, conv_pc, file_input, temp_file, input_file,
                   temp_path, document, proc_index, events, merge_saw, error,
                   rendered>>
    /\ UNCHANGED <<vars, srv_vars>>

\* pdf.py lines 181-227 for converter c, with the default processors.
SharedConstruct ==
    /\ \E c \in Orchestrators, use \in BOOLEAN, name \in ServiceNames :
          /\ convs[c].state = "new"
          /\ LET service == ResolveLLMService(name, use, services_built + 1)
                 dict == DictAtInitialization(artifact_dict, service)
                 classes == ResolveProcessorClasses(<<>>, toggles)
             IN  /\ ~Unresolvable(classes, dict)
                 /\ services_built' = IF service = NoService
                                        THEN services_built
                                        ELSE services_built + 1
                 /\ artifact_dict' = <<service>>
                 /\ convs' = [convs EXCEPT ![c] =
                       [state |-> "ready",
                        llm_service |-> service,
                        processors |-> ServicesHeld(initialize_processors(classes, dict)),
                        at_call |-> {}]]
    /\ SharedKept

\* pdf.py lines 254-261 and 273 for converter c: a collaborator resolved at
\* call time that declares an llm_service parameter is given the entry
\* artifact_dict holds at that time.
SharedConvert ==
    /\ \E c \in Orchestrators, declares \in BOOLEAN :
          /\ convs[c].state = "ready"
          /\ convs' = [convs EXCEPT ![c] =
                [@ EXCEPT !.state = "converted",
                          !.at_call = IF declares THEN {artifact_dict[1]} ELSE {}]]
    /\ UNCHANGED <<artifact_dict, services_built>>
    /\ SharedKept

SharedNext ==
    \/ SharedConstruct
    \/ SharedConvert

SharedSpec == SharedInit /\ [][SharedNext]_all_vars

\* C19: every collaborator resolved for a converter, at construction or
\* during its conversion, is given that converter's own LLM service, never
\* the service (or the absence of one) that another converter over the same
\* artifact_dict installed.
C19_ServiceScoped ==
    \A c \in Orchestrators :
        \A service \in convs[c].processors \cup convs[c].at_call :
            service = convs[c].llm_service

(***************************************************************************)
(* A converter from its construction through any number of conversions:    *)
(* __init__ (pdf.py, lines 181-227), then __call__ (lines 269-275) again   *)
(* and again on the same converter.  The configuration keeps the toggles   *)
(* at their defaults and names the processors, so that a conversion is     *)
(* short.                                                                  *)
(***************************************************************************)

PageCountInit ==
    /\ ServiceIdle
    /\ Unbuilt
    /\ \A a \in ToggleAttrs : toggles[a]
    /\ processor_list_arg # <<>>
    /\ llm_service_arg = ""

\* The caller calls the converter again, after a return or a raise.
CallAgain ==
    /\ conv_pc \in {"returned", "raised"}
    /\ conv_pc' = "ready"
    /\ pre_page_count' = page_count
    /\ file_input' = "none"
    /\ temp_file' = "none"
    /\ temp_path' = ""
    /\ document' = NoDocument
    /\ proc_index' = 0
    /\ events' = <<>>
    /\ merge_saw' = "none"
    /\ error' = ""
    /\ rendered' = ""
    /\ UNCHANGED <<use_llm, toggles, processor_list_arg, llm_service_arg,
                   artifact_dict, services_built, self_llm_service,
                   processor_list, page_count, input_file, convs>>
    /\ UNCHANGED <<vars, srv_vars>>

PageCountNext ==
    \/ Construct
    \/ Enter
    \/ BuildDocument
    \/ Structure
    \/ RunProcessor
    \/ SetPageCount
    \/ Render
    \/ CallAgain

PageCountSpec == PageCountInit /\ [][PageCountNext]_all_vars

\* Where page_count stands during one call: as it was on entry until the
\* processors are through, the built document's page count from then on.
C21_PageCountInCall ==
    /\ conv_pc \in {"new", "ready", "entered", "built", "processing"} =>
           page_count = pre_page_count
    /\ conv_pc \in {"counted", "returned"} => page_count = <<document.pages>>
    /\ (\E i \in DOMAIN events : events[i].step = "render") =>
           page_count = <<document.pages>>
    /\ (conv_pc = "raised" /\ error # "RendererFailure") =>
           page_count = pre_page_count

\* C21: construction leaves page_count None; a conversion that returns
\* leaves it at the number of pages of the document it built; it is written
\* after the last processor and before the renderer, so a conversion that a
\* builder or a processor fails leaves it at its previous value.
C21_PageCount ==
    /\ []C21_PageCountInCall
    /\ [][Construct => page_count' = <<>>]_all_vars

\* A later conversion, of a document without pages, failed in a processor
\* and left the page count of the conversion before it.
C21_Witness ==
    /\ conv_pc = "raised"
    /\ error = "ProcessorFailure"
    /\ document.pages = 0
    /\ page_count = <<MaxPages>>
    /\ pre_page_count = <<MaxPages>>

(***************************************************************************)
(* A sequence of OllamaService calls against one target block              *)
(* (src/marker/services/ollama.py, lines 46-200, called again and again    *)
(* with the same block).  The calls are those with no image or one image,  *)
(* no max_retries override and a schema with required fields; a new call   *)
(* starts while the block's request count is below MaxCount.               *)
(***************************************************************************)

MaxCount == 3

\* Lines 55-113, for the calls looked at here.
CallOnBlock ==
    /\ Call
    /\ image'.kind # "list"
    /\ override' = <<>>
    /\ response_schema' = [k \in {"properties", "required"} |-> SchemaPart(k)]

\* The call is over and the caller makes the next one, with the same block.
NextCall ==
    /\ pc \in {"returned", "raised"}
    /\ block.llm_request_count < MaxCount
    /\ pre_block' = block
    /\ image' = [kind |-> "none", imgs |-> <<>>]
    /\ block_arg' = FALSE
    /\ response_schema' = [k \in {"properties"} |-> SchemaPart(k)]
    /\ override' = <<>>
    /\ max_retries' = 0
    /\ total_tries' = 0
    /\ attempt' = 0
    /\ payload' = NoPayload
    /\ posts' = 0
    /\ sleeps' = <<>>
    /\ trace' = <<>>
    /\ pc' = "idle"
    /\ result' = "none"
    /\ served' = NoReply
    /\ UNCHANGED <<self_max_retries, self_retry_wait_time, block>>
    /\ UNCHANGED <<pdf_vars, srv_vars>>

CallsNext ==
    \/ CallOnBlock
    \/ AttemptReturns
    \/ HandleHTTPError
    \/ HandleJSONDecodeError
    \/ HandleRequestException
    \/ HandleException
    \/ NextCall

CallsSpec == Init /\ [][CallsNext]_all_vars

\* C22: over any sequence of calls against one block, whether they succeed,
\* fail or are skipped by the image guard, no step lowers the block's request
\* count or its tokens used, and the request count grows only with a POST,
\* by one.
C22_CountersMonotonic ==
    [][/\ block'.llm_request_count >= block.llm_request_count
       /\ block'.llm_tokens_used >= block.llm_tokens_used
       /\ block'.llm_request_count <= block.llm_request_count + 1
       /\ block'.llm_request_count > block.llm_request_count =>
              posts' = posts + 1]_all_vars

\* A later call against a block that no call had counted on before the
\* sequence: an earlier call counted once, this one counted one POST that
\* failed and one that succeeded.
C22_Witness ==
    /\ pre_block.llm_request_count = 1
    /\ block.llm_request_count = 3
    /\ block.llm_tokens_used > pre_block.llm_tokens_used
    /\ posts = 2
    /\ pc = "returned"
    /\ result = "parsed"

(***************************************************************************)
(* Claim C23, about one call of the service (Spec).                        *)
(***************************************************************************)

MaxRequests == 2
MaxBytes == 2

Requests == 1..MaxRequests

\* The uploads looked at: n bytes of value n.
Uploads == {[i \in 1..n |-> n] : n \in 1..MaxBytes}

\* What the converter is given when nothing is at upload_path.
NoFile == <<0>>

\* Line 242, open(upload_path, "wb+"): the file at the path emptied, or a new
\* empty file.
OpenedFile == IF upload_dir = 0 THEN Len(inodes) + 1 ELSE upload_dir

\* Line 244: a write at offset 0 of a file that holds old.
Written(old, new) ==
    [i \in 1..(IF Len(old) > Len(new) THEN Len(old) ELSE Len(new)) |->
        IF i <= Len(new) THEN new[i] ELSE old[i]]

ServerInit ==
    /\ ServiceIdle
    /\ PdfIdle
    /\ handler \in [Requests -> {[pc |-> "start", file_contents |-> u, fd |-> 0,
                                  converted |-> <<>>, temp_output_dir |-> "none",
                                  response |-> ""] : u \in Uploads}]
    /\ upload_dir = 0
    /\ inodes = <<>>

\* Lines 241-243, up to the await: upload_path is opened for writing.
OpenUpload ==
    /\ \E r \in Requests :
          /\ handler[r].pc = "start"
          /\ upload_dir' = OpenedFile
          /\ inodes' = IF upload_dir = 0
                         THEN Append(inodes, <<>>)
                         ELSE [inodes EXCEPT ![upload_dir] = <<>>]
          /\ handler' = [handler EXCEPT ![r] =
                [@ EXCEPT !.pc = "reading", !.fd = OpenedFile]]
    /\ UNCHANGED <<vars, pdf_vars>>

\* Lines 243-389, from the await on: the bytes are written, the temporary
\* directory is made, the file at upload_path is converted (the conversion
\* fails when nothing is there, and may fail otherwise), and the upload file
\* and the directory are removed on either way out (369-370, 382-385).
FinishUpload ==
    /\ \E r \in Requests, fails \in BOOLEAN :
          /\ handler[r].pc = "reading"
          /\ LET written == [inodes EXCEPT ![handler[r].fd] =
                                Written(@, handler[r].file_contents)]
                 found == upload_dir # 0
             IN  /\ inodes' = written
                 /\ ~found => fails
                 /\ handler' = [handler EXCEPT ![r] =
                       [@ EXCEPT !.pc = "done",
                                 !.converted = IF found THEN written[upload_dir]
                                                        ELSE NoFile,
                                 !.temp_output_dir = "removed",
                                 !.response = IF fails THEN "error" ELSE "zip"]]
          /\ upload_dir' = 0
    /\ UNCHANGED <<vars, pdf_vars>>

ServerNext ==
    \/ OpenUpload
    \/ FinishUpload

ServerSpec == ServerInit /\ [][ServerNext]_all_vars

\* C24: two uploads of the same filename that interleave at the file read do
\* not interfere: each request converts exactly the bytes it uploaded, no
\* request's cleanup removes the upload file another request has yet to
\* convert, and a request that ended has removed its upload file and its
\* temporary directory.
C24_UploadsIsolated ==
    /\ \A r \in Requests :
          handler[r].pc = "done" =>
              /\ handler[r].converted = handler[r].file_contents
              /\ handler[r].temp_output_dir = "removed"
    /\ (\E r \in Requests : handler[r].pc = "reading") => upload_dir # 0

====
